---------------------------- MODULE Spec2Model ----------------------------
(***************************************************************************)
(* A model of src/main.py of wunderground_scraper: the date range          *)
(* generator (getDates), the scrape-retry-accumulate loop                  *)
(* (scrapeDataToCSV with its two exporters), the unit-stripping pass       *)
(* (processData) and the categorical encoder (oneHotEncode).               *)
(*                                                                         *)
(* Python strings that the program inspects character by character are     *)
(* sequences of one-character strings; a missing cell (the float NaN that  *)
(* pandas.read_csv yields for an empty field) is the value NaN.            *)
(***************************************************************************)
EXTENDS Integers, Sequences, FiniteSets, TLC

VARIABLES
    pc,             \* position of the running function
    error,          \* the exception that left the function, or "none"
    raised_in,      \* the function whose statement raised it, or "none"
    start_date,     \* getDates: argument
    end_date,       \* getDates: argument
    dtstart,        \* getDates: the next occurrence of the rrule
    until,          \* getDates: the last day of the rrule
    dates,          \* getDates: returned list / scrapeDataToCSV: argument
    i,              \* scrapeDataToCSV: position of the for loop in dates
    done,           \* scrapeDataToCSV: local of the retry loop
    weather_data,   \* scrapeDataToCSV: local, the last fetched table
    data,           \* scrapeDataToCSV: data[station], the accumulator
    log,            \* the fetches issued so far, in order (history)
    files,          \* the ./data/ directory: file name -> what was written
    data_raw,       \* processData / oneHotEncode: the loaded table
    out             \* processData / oneHotEncode: the table written back

vars == << pc, error, raised_in, start_date, end_date, dtstart, until, dates, i, done,
           weather_data, data, log, files, data_raw, out >>

\* The value of a variable a function does not use or has not yet bound.
Unbound == << >>

\* A missing cell: no sequence of characters equals it.
NaN == << "NaN" >>

----------------------------------------------------------------------------
(* Calendar dates                                                          *)

\* First year of the run parameters in main().
FirstYear == 2019

\* The date strings tried cover the years FirstYear .. FirstYear + YearSpan.
YearSpan == 1

Years == FirstYear .. (FirstYear + YearSpan)

Digits == << "0", "1", "2", "3", "4", "5", "6", "7", "8", "9" >>

IsDigit(c) == \E k \in 1..10 : Digits[k] = c

DigitValue(c) == (CHOOSE k \in 1..10 : Digits[k] = c) - 1

DigitChar(n) == Digits[n + 1]

\* The text "yyyy-mm-dd" of a date, as the docstring of getDates asks for it.
FormatDate(y, m, d) ==
    << DigitChar((y \div 1000) % 10), DigitChar((y \div 100) % 10),
       DigitChar((y \div 10) % 10), DigitChar(y % 10), "-",
       DigitChar((m \div 10) % 10), DigitChar(m % 10), "-",
       DigitChar((d \div 10) % 10), DigitChar(d % 10) >>

IsLeap(y) == (y % 4 = 0) /\ ((y % 100 # 0) \/ (y % 400 = 0))

\* calendar.monthrange(year, month)[1]
DaysInMonth(y, m) ==
    IF m = 2 THEN (IF IsLeap(y) THEN 29 ELSE 28)
    ELSE IF m \in {4, 6, 9, 11} THEN 30 ELSE 31

Date(y, m, d) == [year |-> y, month |-> m, day |-> d]

\* The year, month and day fields of a yyyy-mm-dd text.
DateFields(s) ==
    Date(1000 * DigitValue(s[1]) + 100 * DigitValue(s[2])
            + 10 * DigitValue(s[3]) + DigitValue(s[4]),
         10 * DigitValue(s[6]) + DigitValue(s[7]),
         10 * DigitValue(s[9]) + DigitValue(s[10]))

\* Whether dateutil.parser.parse accepts a yyyy-mm-dd text: it raises
\* ParserError when the text holds no date or names a day that the calendar
\* does not have.
Parses(s) ==
    /\ Len(s) = 10
    /\ s[5] = "-" /\ s[8] = "-"
    /\ \A k \in {1, 2, 3, 4, 6, 7, 9, 10} : IsDigit(s[k])
    /\ LET f == DateFields(s)
       IN  /\ f.year >= 1
           /\ f.month \in 1..12
           /\ f.day \in 1..DaysInMonth(f.year, f.month)

\* dateutil.parser.parse on a text it accepts: the datetime at midnight.
ParseDate(s) == DateFields(s)

\* datetime comparison a <= b (both at midnight).
DateLE(a, b) ==
    \/ a.year < b.year
    \/ a.year = b.year /\ a.month < b.month
    \/ a.year = b.year /\ a.month = b.month /\ a.day <= b.day

\* Mutant of NextDay: February has 28 days in every year.
NextDayLeapBlind(dt) ==
    LET len == IF dt.month = 2 THEN 28 ELSE DaysInMonth(dt.year, dt.month)
    IN  IF dt.day + 1 <= len THEN Date(dt.year, dt.month, dt.day + 1)
        ELSE IF dt.month = 12 THEN Date(dt.year + 1, 1, 1)
        ELSE Date(dt.year, dt.month + 1, 1)

\* A step of rrule's DAILY iteration (interval 1): the day is advanced and
\* then brought back into its month, carrying into the month and the year.
NextDay(dt) ==
    IF dt.day + 1 <= DaysInMonth(dt.year, dt.month)
    THEN Date(dt.year, dt.month, dt.day + 1)
    ELSE IF dt.month = 12 THEN Date(dt.year + 1, 1, 1)
    ELSE Date(dt.year, dt.month + 1, 1)

\* The date texts tried as arguments of getDates: the days around the end
\* of February, of a 30-day month and of the year, in each year of Years
\* (one of them a leap year), a day the calendar has only in leap years, and
\* two texts that hold no date.
SampleDays == { <<1, 1>>, <<2, 28>>, <<2, 29>>, <<3, 1>>, <<11, 30>>, <<12, 31>> }
DateTexts ==
    { FormatDate(y, md[1], md[2]) : y \in Years, md \in SampleDays }
    \cup { << >>, << "y", "y", "y", "y", "-", "m", "m", "-", "d", "d" >> }

InitDates ==
    /\ pc = "getDates"
    /\ error = "none"
    /\ raised_in = "none"
    /\ start_date \in DateTexts
    /\ end_date \in DateTexts
    /\ dtstart = Unbound
    /\ until = Unbound
    /\ dates = << >>
    /\ i = 0
    /\ done = FALSE
    /\ weather_data = Unbound
    /\ data = << >>
    /\ log = << >>
    /\ files = {}
    /\ data_raw = Unbound
    /\ out = Unbound

\* getDates, lines 58-60, when both texts parse: the rrule is set up with
\* its first occurrence at start.
getDatesParse ==
    /\ pc = "getDates"
    /\ Parses(start_date)
    /\ Parses(end_date)
    /\ dtstart' = << ParseDate(start_date) >>
    /\ until' = << ParseDate(end_date) >>
    /\ pc' = "rrule"
    /\ UNCHANGED << error, raised_in, start_date, end_date, dates, i, done,
                    weather_data, data, log, files, data_raw, out >>

\* getDates when a text does not parse: parser.parse raises and nothing in
\* getDates catches it.
getDatesRaises ==
    /\ pc = "getDates"
    /\ ~Parses(start_date) \/ ~Parses(end_date)
    /\ pc' = "raised"
    /\ error' = "ParserError"
    /\ raised_in' = "getDates"
    /\ UNCHANGED << start_date, end_date, dtstart, until, dates, i, done,
                    weather_data, data, log, files, data_raw, out >>

\* list(rrule.rrule(rrule.DAILY, dtstart=start, until=end)), one occurrence:
\* an occurrence that is not after until is yielded and the day advanced.
rruleYield ==
    /\ pc = "rrule"
    /\ DateLE(dtstart[1], until[1])
    /\ dates' = Append(dates, dtstart[1])
    /\ dtstart' = << NextDay(dtstart[1]) >>
    /\ UNCHANGED << pc, error, raised_in, start_date, end_date, until, i, done,
                    weather_data, data, log, files, data_raw, out >>

\* The rrule ends at the first occurrence after until, and getDates returns
\* the list, line 61: the empty list when start is after end.
getDatesReturns ==
    /\ pc = "rrule"
    /\ ~DateLE(dtstart[1], until[1])
    /\ pc' = "returned"
    /\ UNCHANGED << error, raised_in, start_date, end_date, dtstart, until,
                    dates, i, done, weather_data, data, log, files, data_raw,
                    out >>

NextDates == getDatesParse \/ getDatesRaises \/ rruleYield \/ getDatesReturns

SpecDates == InitDates /\ [][NextDates]_vars

----------------------------------------------------------------------------
(* Properties of getDates                                                  *)

\* The number of days before 1 January of year y, and before the first of
\* month m in year y (the proleptic Gregorian ordinal of datetime).
DaysBeforeYear(y) ==
    (y - 1) * 365 + ((y - 1) \div 4) - ((y - 1) \div 100) + ((y - 1) \div 400)

DaysBeforeMonth(y, m) ==
    << 0, 31, 59, 90, 120, 151, 181, 212, 243, 273, 304, 334 >>[m]
    + (IF m > 2 /\ IsLeap(y) THEN 1 ELSE 0)

Ordinal(dt) == DaysBeforeYear(dt.year) + DaysBeforeMonth(dt.year, dt.month) + dt.day

\* C4: for valid dates start <= end, getDates returns a list whose length is
\* the inclusive day count, that starts at start, ends at end, and in which
\* every element is exactly one day after the one before it.
C4_InclusiveDailyRange ==
    (pc = "returned" /\ DateLE(ParseDate(start_date), ParseDate(end_date))) =>
        LET start == ParseDate(start_date)
            end == ParseDate(end_date)
        IN  /\ Len(dates) = Ordinal(end) - Ordinal(start) + 1
            /\ dates[1] = start
            /\ dates[Len(dates)] = end
            /\ \A k \in 1..(Len(dates) - 1) :
                   Ordinal(dates[k + 1]) = Ordinal(dates[k]) + 1

\* C4 witness: a returned range of more than a year that runs over a
\* 29 February.
C4_Witness ==
    /\ pc = "returned"
    /\ Len(dates) > 365
    /\ \E k \in 1..Len(dates) : dates[k].month = 2 /\ dates[k].day = 29

\* C5: getDates fails whenever start is after end or a text cannot be
\* parsed; it never returns normally (an empty list) for such arguments.
C5_FailsOnInvalidRange ==
    LET invalid ==
            \/ ~Parses(start_date)
            \/ ~Parses(end_date)
            \/ ~DateLE(ParseDate(start_date), ParseDate(end_date))
    IN  (pc \in {"returned", "raised"} /\ invalid) => pc = "raised"

----------------------------------------------------------------------------
(* scrapeDataToCSV: the fetch loop and the two exporters                   *)

\* The lists of dates passed to scrapeDataToCSV hold at most MaxDates days.
MaxDates == 3

\* The fetch of one date meets at most MaxTransient connection errors.
MaxTransient == 2

\* station in main()
Station == "VNKT"

RECURSIVE DaysFrom(_, _)
DaysFrom(dt, n) == IF n = 0 THEN << >> ELSE << dt >> \o DaysFrom(NextDay(dt), n - 1)

\* The arguments tried: the lists getDates returns from a day before the
\* end of a year or of a February on.
ScrapeDateLists ==
    { DaysFrom(dt, n) : dt \in { Date(FirstYear, 12, 30), Date(FirstYear + 1, 2, 28) },
                        n \in 0..MaxDates }

\* What getWundergroundData returns for a day: the table of the page with
\* the Date column inserted, lines 42-45.
Table(dt) == [Date |-> << dt.year, dt.month, dt.day >>]

\* The ways a call of getWundergroundData ends other than by returning or by
\* a ConnectionError: WebDriverWait gives up (no table within 20 s), or the
\* table found does not parse into a data frame.
OtherFailures == {"TimeoutException", "ValueError"}

\* The fetches of the date at position k, in the order they were issued.
FetchesOf(k) == SelectSeq(log, LAMBDA e : e.idx = k)

\* The number of connection errors the date at position k has met.
TransientCount(k) ==
    Len(SelectSeq(log, LAMBDA e : e.idx = k /\ e.outcome = "ConnectionError"))

InitScrape ==
    /\ pc = "for"
    /\ error = "none"
    /\ raised_in = "none"
    /\ start_date = << >>
    /\ end_date = << >>
    /\ dtstart = Unbound
    /\ until = Unbound
    /\ dates \in ScrapeDateLists
    /\ i = 0
    /\ done = FALSE
    /\ weather_data = Unbound
    /\ data = << >>
    /\ log = << >>
    /\ files = {}
    /\ data_raw = Unbound
    /\ out = Unbound

\* for date in tqdm(dates): the next date is taken and done is reset,
\* lines 108-112.
forNext ==
    /\ pc = "for"
    /\ i < Len(dates)
    /\ i' = i + 1
    /\ done' = FALSE
    /\ pc' = "while"
    /\ UNCHANGED << error, raised_in, start_date, end_date, dtstart, until,
                    dates, weather_data, data, log, files, data_raw, out >>

\* The for loop is exhausted: the exporters follow, line 127.
forEnd ==
    /\ pc = "for"
    /\ i = Len(dates)
    /\ pc' = "weatherStaionToCSV"
    /\ UNCHANGED << error, raised_in, start_date, end_date, dtstart, until,
                    dates, i, done, weather_data, data, log, files, data_raw,
                    out >>

\* The fetch returns a table, lines 115-117.
fetchReturns ==
    /\ pc = "while"
    /\ done = FALSE
    /\ log' = Append(log, [idx |-> i, outcome |-> "ok"])
    /\ weather_data' = << Table(dates[i]) >>
    /\ done' = TRUE
    /\ UNCHANGED << pc, error, raised_in, start_date, end_date, dtstart, until,
                    dates, i, data, files, data_raw, out >>

\* Mutant of fetchConnectionError: the handler gives the date up, so the
\* loop ends with whatever weather_data holds.
fetchConnectionErrorGivesUp ==
    /\ pc = "while"
    /\ done = FALSE
    /\ TransientCount(i) < MaxTransient
    /\ log' = Append(log, [idx |-> i, outcome |-> "ConnectionError"])
    /\ done' = TRUE
    /\ UNCHANGED << pc, error, raised_in, start_date, end_date, dtstart, until,
                    dates, i, weather_data, data, files, data_raw, out >>

\* The fetch raises ConnectionError: the handler prints, sleeps 10 s and the
\* while loop tries the same date again, lines 118-122.  There is no count
\* of the attempts in the code; MaxTransient bounds the model only.
fetchConnectionError ==
    /\ pc = "while"
    /\ done = FALSE
    /\ TransientCount(i) < MaxTransient
    /\ log' = Append(log, [idx |-> i, outcome |-> "ConnectionError"])
    /\ UNCHANGED << pc, error, raised_in, start_date, end_date, dtstart, until,
                    dates, i, done, weather_data, data, files, data_raw, out >>

\* Mutant of fetchRaises: every exception is handled like ConnectionError.
fetchRaisesRetried ==
    /\ pc = "while"
    /\ done = FALSE
    /\ \E e \in OtherFailures :
           /\ Len(SelectSeq(log, LAMBDA x : x.idx = i /\ x.outcome = e)) < MaxTransient
           /\ log' = Append(log, [idx |-> i, outcome |-> e])
    /\ UNCHANGED << pc, error, raised_in, start_date, end_date, dtstart, until,
                    dates, i, done, weather_data, data, files, data_raw, out >>

\* The fetch raises anything that is not a ConnectionError: no handler
\* matches, and the exception leaves scrapeDataToCSV, lines 114-118.
fetchRaises ==
    /\ pc = "while"
    /\ done = FALSE
    /\ \E e \in OtherFailures :
           /\ log' = Append(log, [idx |-> i, outcome |-> e])
           /\ error' = e
    /\ raised_in' = "getWundergroundData"
    /\ pc' = "raised"
    /\ UNCHANGED << start_date, end_date, dtstart, until, dates, i, done,
                    weather_data, data, files, data_raw, out >>

\* Mutant of AppendTable: the table is put in front of the accumulator.
PrependTable(acc, table) == << table >> \o acc

\* data[station].append(weather_data), line 124.
AppendTable(acc, table) == Append(acc, table)

\* The while loop ends once done is set, and the table in weather_data is
\* appended, lines 113 and 124.  A weather_data never bound is an
\* UnboundLocalError.
whileExit ==
    /\ pc = "while"
    /\ done = TRUE
    /\ IF weather_data = Unbound
       THEN /\ pc' = "raised"
            /\ error' = "UnboundLocalError"
            /\ raised_in' = "scrapeDataToCSV"
            /\ data' = data
       ELSE /\ data' = AppendTable(data, weather_data[1])
            /\ pc' = "for"
            /\ UNCHANGED << error, raised_in >>
    /\ UNCHANGED << start_date, end_date, dtstart, until, dates, i, done,
                    weather_data, log, files, data_raw, out >>

\* A file name '{}_raw_weather.csv'.format(station) in ./data/.
FileName(station, stem, ext) == [station |-> station, stem |-> stem, ext |-> ext]

\* files after a write to name: the file is created or replaced.
Written(name, format, content) ==
    { f \in files : f.name # name }
    \cup { [name |-> name, format |-> format, content |-> content] }

\* weatherStaionToCSV, lines 71-76: pd.concat raises ValueError on an empty
\* list; else the concatenation goes to <station>_raw_weather.csv.
weatherStaionToCSV ==
    /\ pc = "weatherStaionToCSV"
    /\ IF data = << >>
       THEN /\ pc' = "raised"
            /\ error' = "ValueError"
            /\ raised_in' = "weatherStaionToCSV"
            /\ files' = files
       ELSE /\ files' = Written(FileName(Station, "raw_weather", "csv"), "csv", data)
            /\ pc' = "weatherStaionToEXCEL"
            /\ UNCHANGED << error, raised_in >>
    /\ UNCHANGED << start_date, end_date, dtstart, until, dates, i, done,
                    weather_data, data, log, data_raw, out >>

\* The file extensions pandas has an Excel writer for.
ExcelExtensions == {"xlsx", "xlsm", "xls", "ods"}

\* weatherStaionToEXCEL, lines 86-91: the name is built with the extension
\* csv, as in weatherStaionToCSV; to_excel chooses its writer by the
\* extension and raises ValueError (no engine for filetype 'csv') before it
\* opens the file.
weatherStaionToEXCEL ==
    /\ pc = "weatherStaionToEXCEL"
    /\ LET fullname == FileName(Station, "raw_weather", "csv")
       IN  IF fullname.ext \in ExcelExtensions
           THEN /\ files' = Written(fullname, "excel", data)
                /\ pc' = "done"
                /\ UNCHANGED << error, raised_in >>
           ELSE /\ pc' = "raised"
                /\ error' = "ValueError"
                /\ raised_in' = "weatherStaionToEXCEL"
                /\ files' = files
    /\ UNCHANGED << start_date, end_date, dtstart, until, dates, i, done,
                    weather_data, data, log, data_raw, out >>

NextScrape ==
    \/ forNext
    \/ forEnd
    \/ fetchReturns
    \/ fetchConnectionError
    \/ fetchRaises
    \/ whileExit
    \/ weatherStaionToCSV
    \/ weatherStaionToEXCEL

SpecScrape == InitScrape /\ [][NextScrape]_vars

----------------------------------------------------------------------------
(* Properties of scrapeDataToCSV                                           *)

\* The for loop has run to its end.
LoopFinished ==
    \/ pc \in {"weatherStaionToCSV", "weatherStaionToEXCEL", "done"}
    \/ pc = "raised" /\ raised_in \in {"weatherStaionToCSV", "weatherStaionToEXCEL"}

\* The fetch of the date at position k failed with connection errors some
\* number of times (possibly none) and then succeeded.
FailedThenSucceeded(k) ==
    LET f == FetchesOf(k)
    IN  /\ Len(f) >= 1
        /\ f[Len(f)].outcome = "ok"
        /\ \A j \in 1..(Len(f) - 1) : f[j].outcome = "ConnectionError"

\* C1: when the loop has finished, every date whose fetch failed
\* transiently N times and then succeeded has its table in the accumulator
\* exactly once, at the position the date has in the input list.
C1_RetriedDateIncludedOnce ==
    LoopFinished =>
        \A k \in 1..Len(dates) :
            FailedThenSucceeded(k) =>
                /\ Len(data) = Len(dates)
                /\ data[k] = Table(dates[k])
                /\ Cardinality({ j \in 1..Len(data) : data[j] = Table(dates[k]) }) = 1

\* C1 witness: the loop has finished and a date in the middle of the list
\* was fetched after MaxTransient connection errors.
C1_Witness ==
    /\ LoopFinished
    /\ \E k \in 2..(Len(dates) - 1) :
           FailedThenSucceeded(k) /\ TransientCount(k) = MaxTransient

\* The retry cap K of C2.
RetryCap == MaxTransient - 1

\* C2: a date whose K fetches all failed with a connection error is not
\* fetched again, and the run reports FetchExhausted for it.
C2_ExhaustedAfterCap ==
    \A k \in 1..Len(dates) :
        TransientCount(k) >= RetryCap =>
            /\ TransientCount(k) = RetryCap
            /\ Len(FetchesOf(k)) = RetryCap
            /\ pc = "raised"
            /\ error = "FetchExhausted"

\* C3: a fetch that fails with anything but a connection error is the last
\* fetch of the run (the date is not retried, no later date is fetched), the
\* exception leaves scrapeDataToCSV, and the accumulator holds the tables of
\* the earlier dates only.
C3_OtherFailureAborts ==
    \A j \in 1..Len(log) :
        log[j].outcome \in OtherFailures =>
            /\ j = Len(log)
            /\ pc = "raised"
            /\ error = log[j].outcome
            /\ raised_in = "getWundergroundData"
            /\ Len(data) = log[j].idx - 1
            /\ \A n \in 1..Len(data) : data[n] # Table(dates[log[j].idx])
            /\ ~ENABLED NextScrape

\* C3 witness: the fetch of a date in the middle of the list has failed
\* with a timeout after a connection error.
C3_Witness ==
    /\ pc = "raised"
    /\ error = "TimeoutException"
    /\ i \in 2..(Len(dates) - 1)
    /\ TransientCount(i) >= 1

\* C9: a run that fetched every date ends with two raw files in the data
\* directory, <station>_raw_weather.csv in CSV format and
\* <station>_raw_weather.xlsx in spreadsheet format, each holding the
\* concatenation of the accumulated tables.
C9_TwoRawFiles ==
    (pc \in {"done", "raised"} /\ Len(dates) > 0 /\ Len(data) = Len(dates)) =>
        /\ [name |-> FileName(Station, "raw_weather", "csv"),
            format |-> "csv", content |-> data] \in files
        /\ [name |-> FileName(Station, "raw_weather", "xlsx"),
            format |-> "excel", content |-> data] \in files

\* The number of fetches among the first j that returned a table.
OkCount(j) == Len(SelectSeq(SubSeq(log, 1, j), LAMBDA e : e.outcome = "ok"))

\* C10: the accumulator is always the tables of a prefix of the input
\* dates, in input order; a fetch is issued for the date right after the
\* accumulated ones only; and a fetch that did not return a table appends
\* nothing.
C10_AccumulatorIsPrefix ==
    /\ Len(data) <= Len(dates)
    /\ \A k \in 1..Len(data) : data[k] = Table(dates[k])
    /\ (pc = "while" /\ done = FALSE) => Len(data) = i - 1
    /\ \A j \in 1..Len(log) : log[j].idx = OkCount(j - 1) + 1
    /\ Len(data) \in { OkCount(Len(log)), OkCount(Len(log)) - 1 }
    /\ Len(data) = OkCount(Len(log)) - 1 => (pc = "while" /\ done = TRUE)

\* C10 witness: two tables are accumulated and the fetch of the third date
\* has met a connection error.
C10_Witness ==
    /\ pc = "while"
    /\ done = FALSE
    /\ Len(data) >= 2
    /\ TransientCount(i) >= 1

----------------------------------------------------------------------------
(* Text cells                                                              *)

\* The tables tried hold at most MaxRows rows.
MaxRows == 2

UpperCase == << "A", "B", "C", "D", "E", "F", "G", "H", "I", "J", "K", "L", "M", "N", "O", "P", "Q", "R", "S", "T", "U", "V", "W", "X", "Y", "Z" >>
LowerCase == << "a", "b", "c", "d", "e", "f", "g", "h", "i", "j", "k", "l", "m", "n", "o", "p", "q", "r", "s", "t", "u", "v", "w", "x", "y", "z" >>

\* str.lower() of one character and of a text (the text is built as a
\* sequence, by concatenation to the empty one).
LowerChar(c) ==
    IF \E k \in 1..26 : UpperCase[k] = c
    THEN LowerCase[CHOOSE k \in 1..26 : UpperCase[k] = c]
    ELSE c

Lower(s) == << >> \o [k \in 1..Len(s) |-> LowerChar(s[k])]

\* Python's  sub in s  for texts.
Contains(sub, s) ==
    \E p \in 0..(Len(s) - Len(sub)) : \A q \in 1..Len(sub) : s[p + q] = sub[q]

IsSpace(c) == c = " "

\* The text from the first character of s that is not white space up to
\* the next white space: element 0 of s.split(), the empty text if s is all
\* white space.
RECURSIVE TakeToken(_)
TakeToken(s) ==
    IF s = << >> \/ IsSpace(Head(s)) THEN << >>
    ELSE << Head(s) >> \o TakeToken(Tail(s))

RECURSIVE SkipSpace(_)
SkipSpace(s) ==
    IF s # << >> /\ IsSpace(Head(s)) THEN SkipSpace(Tail(s)) ELSE s

\* Series.str.split(expand=True)[:][0] on one cell: a missing cell stays
\* missing, and so does a cell with no token in it.
SplitFirst(cell) ==
    IF cell = NaN THEN NaN
    ELSE LET t == TakeToken(SkipSpace(cell))
         IN  IF t = << >> THEN NaN ELSE t

\* Series.str.replace(old, new) on one cell, old and new one character
\* each (a one-character pattern is taken literally).
StrReplace(cell, old, new) ==
    IF cell = NaN THEN NaN
    ELSE << >> \o [k \in 1..Len(cell) |-> IF cell[k] = old THEN new ELSE cell[k]]

\* Whether pandas.read_csv takes a field for a number.
IsNumberText(cell) ==
    /\ cell # NaN
    /\ Len(cell) > 0
    /\ \A k \in 1..Len(cell) : IsDigit(cell[k]) \/ cell[k] = "." \/ (k = 1 /\ cell[k] = "-")
    /\ \E k \in 1..Len(cell) : IsDigit(cell[k])

----------------------------------------------------------------------------
(* processData                                                             *)

\* The columns of <station>_raw_weather.csv that processData touches.
RawColumns ==
    { "Date", "Time", "Temperature", "Dew Point", "Humidity", "Wind",
      "Wind Speed", "Wind Gust", "Pressure", "Precip.", "Condition" }

\* cols, lines 141-149: the new name of a column.
Rename(c) ==
    CASE c = "Temperature" -> "Temperature [F]"
      [] c = "Dew Point" -> "Dew Point [F]"
      [] c = "Humidity" -> "Humidity [%]"
      [] c = "Wind" -> "Wind Direction"
      [] c = "Wind Speed" -> "Wind Speed [mph]"
      [] c = "Wind Gust" -> "Wind Gust [mph]"
      [] c = "Pressure" -> "Pressure [in]"
      [] c = "Precip." -> "Precipitation [inch]"
      [] OTHER -> c

\* The columns read through the .str accessor, lines 153-162.
StrColumns ==
    { "Time", "Temperature [F]", "Dew Point [F]", "Humidity [%]",
      "Wind Speed [mph]", "Wind Gust [mph]", "Pressure [in]",
      "Precipitation [inch]" }

\* The raw rows tried: the cells of Temperature, Humidity and Pressure vary
\* (with a unit, without one, missing), the others are fixed.
RawRows ==
    { [c \in RawColumns |->
         CASE c = "Date" -> << "2", "0", "1", "9", "-", "1", "-", "1" >>
           [] c = "Time" -> << "1", "2", ":", "5", "1", " ", "A", "M" >>
           [] c = "Temperature" -> t
           [] c = "Dew Point" -> << "5", "5", " ", "F" >>
           [] c = "Humidity" -> h
           [] c = "Wind" -> << "N" >>
           [] c = "Wind Speed" -> << "5", " ", "m", "p", "h" >>
           [] c = "Wind Gust" -> << "0", " ", "m", "p", "h" >>
           [] c = "Pressure" -> p
           [] c = "Precip." -> << "0", ".", "0", " ", "i", "n" >>
           [] c = "Condition" -> << "F", "a", "i", "r" >> ] :
      t \in { << "7", "2", " ", "F" >>, << "7", "2" >> },
      h \in { << "4", "5", " ", "%" >>, NaN },
      p \in { << "2", "9", ".", "9", "2", " ", "i", "n" >>, << "2", "9", ".", "9", "2" >>, << "3", "0", " ", "i", "n" >> } }

\* The tables of 1 to MaxRows rows over a set of rows.
Tables(rows) == UNION { [1..n -> rows] : n \in 1..MaxRows }

\* pd.read_csv, line 138, followed by the rename, line 150: read_csv makes
\* a column whose fields are all numbers or empty a numeric column, and
\* leaves the fields of any other column as text.
Renamed(table) ==
    [k \in 1..Len(table) |->
        [c \in { Rename(r) : r \in RawColumns } |->
            table[k][CHOOSE r \in RawColumns : Rename(r) = c]]]

IsNumericColumn(table, c) ==
    \A k \in 1..Len(table) : table[k][c] = NaN \/ IsNumberText(table[k][c])

\* Lines 153-162 on one cell of column c.
ProcessCell(c, cell) ==
    CASE c = "Time" -> StrReplace(SplitFirst(cell), ":", ".")
      [] c = "Pressure [in]" ->
             StrReplace(StrReplace(SplitFirst(cell), ".", ","), ".", ",")
      [] c \in StrColumns \ {"Time", "Pressure [in]"} -> SplitFirst(cell)
      [] OTHER -> cell

InitProcess ==
    /\ pc = "processData"
    /\ error = "none"
    /\ raised_in = "none"
    /\ start_date = << >>
    /\ end_date = << >>
    /\ dtstart = Unbound
    /\ until = Unbound
    /\ dates = << >>
    /\ i = 0
    /\ done = FALSE
    /\ weather_data = Unbound
    /\ data = << >>
    /\ log = << >>
    /\ files = {}
    /\ data_raw \in Tables(RawRows)
    /\ out = Unbound

\* processData, lines 136-169: the .str accessor of a numeric column raises
\* AttributeError; else every cell is processed, the precipitation column
\* dropped and the table written to <station>_processed_weather.csv and
\* .xlsx.
processData ==
    /\ pc = "processData"
    /\ LET renamed == Renamed(data_raw)
           processed ==
               [k \in 1..Len(renamed) |->
                   [c \in DOMAIN renamed[k] \ {"Precipitation [inch]"} |->
                       ProcessCell(c, renamed[k][c])]]
       IN  IF \E c \in StrColumns : IsNumericColumn(renamed, c)
           THEN /\ pc' = "raised"
                /\ error' = "AttributeError"
                /\ raised_in' = "processData"
                /\ UNCHANGED << out, files >>
           ELSE /\ out' = processed
                /\ files' = { [name |-> FileName(Station, "processed_weather", "csv"),
                               format |-> "csv", content |-> out'],
                              [name |-> FileName(Station, "processed_weather", "xlsx"),
                               format |-> "excel", content |-> out'] }
                /\ pc' = "processed"
                /\ UNCHANGED << error, raised_in >>
    /\ UNCHANGED << start_date, end_date, dtstart, until, dates, i, done,
                    weather_data, data, log, data_raw >>

NextProcess == processData

SpecProcess == InitProcess /\ [][NextProcess]_vars

\* The columns that hold a value with a unit (C8).
UnitColumns ==
    { "Temperature", "Dew Point", "Humidity", "Wind Speed", "Wind Gust", "Pressure" }

\* The leading white-space delimited token of a text: its longest prefix
\* free of white space, once the leading white space is dropped.
LeadingToken(cell) ==
    LET s == SkipSpace(cell)
        n == CHOOSE n \in 0..Len(s) :
                 /\ \A k \in 1..n : ~IsSpace(s[k])
                 /\ n = Len(s) \/ IsSpace(s[n + 1])
    IN  SubSeq(s, 1, n)

\* C8: after processData every text cell of a unit-bearing column equals the
\* leading white-space delimited token of the raw cell, no other character
\* changed ("72 F" -> "72", "29.92 in" -> "29.92", "72" -> "72").
C8_UnitStripKeepsToken ==
    pc = "processed" =>
        \A k \in 1..Len(data_raw) : \A c \in UnitColumns :
            data_raw[k][c] # NaN => out[k][Rename(c)] = LeadingToken(data_raw[k][c])

----------------------------------------------------------------------------
(* oneHotEncode                                                            *)

\* The Condition texts tried: texts of the list in the comment of line 183,
\* the same in other letter case, texts with keywords of two labels, and a
\* text with no keyword.
\*   "Fair", "FAIR", "Partly Cloudy", "Fog", "Light Rain with Thunder",
\*   "Heavy T-Storm", "Drizzle", "Rain and Cloudy", "Fair and Foggy",
\*   "Misty", "Haze"
ConditionTexts ==
    { << "F", "a", "i", "r" >>,
      << "F", "A", "I", "R" >>,
      << "P", "a", "r", "t", "l", "y", " ", "C", "l", "o", "u", "d", "y" >>,
      << "F", "o", "g" >>,
      << "L", "i", "g", "h", "t", " ", "R", "a", "i", "n", " ", "w", "i", "t", "h", " ", "T", "h", "u", "n", "d", "e", "r" >>,
      << "H", "e", "a", "v", "y", " ", "T", "-", "S", "t", "o", "r", "m" >>,
      << "D", "r", "i", "z", "z", "l", "e" >>,
      << "R", "a", "i", "n", " ", "a", "n", "d", " ", "C", "l", "o", "u", "d", "y" >>,
      << "F", "a", "i", "r", " ", "a", "n", "d", " ", "F", "o", "g", "g", "y" >>,
      << "M", "i", "s", "t", "y" >>,
      << "H", "a", "z", "e" >> }

\* The Wind Direction texts tried.
WindTexts == { << "N" >>, << "S", "W" >> }

\* The rows of <station>_processed_weather.csv tried: Wind Direction and
\* Condition vary and may be missing, the other columns are left out but
\* for Time.
ProcessedRows ==
    { [c \in {"Time", "Wind Direction", "Condition"} |->
         CASE c = "Time" -> << "1", "2", ".", "5", "1" >>
           [] c = "Wind Direction" -> w
           [] c = "Condition" -> x ] :
      w \in WindTexts \cup {NaN}, x \in ConditionTexts \cup {NaN} }

\* type(item) != str, line 188: a missing cell is a float.
IsStr(item) == item # NaN

\* Mutant of Generalize: the Cloudy keywords are looked for before the Rain
\* keywords.
GeneralizeCloudyFirst(item) ==
    IF ~IsStr(item) THEN "Other"
    ELSE IF \/ Contains(<< "c", "l", "o", "u", "d", "y" >>, Lower(item))
            \/ Contains(<< "f", "o", "g" >>, Lower(item))
    THEN "Cloudy"
    ELSE IF \/ Contains(<< "r", "a", "i", "n" >>, Lower(item))
            \/ Contains(<< "d", "r", "i", "z", "z", "l", "e" >>, Lower(item))
            \/ Contains(<< "m", "i", "s", "t", "y" >>, Lower(item))
            \/ Contains(<< "s", "t", "o", "r", "m" >>, Lower(item))
            \/ Contains(<< "t", "h", "u", "n", "d", "e", "r" >>, Lower(item))
    THEN "Rain"
    ELSE IF Contains(<< "f", "a", "i", "r" >>, Lower(item)) THEN "Sun"
    ELSE "Other"

\* The if/elif chain of lines 188-197: the label appended to
\* generalized_conditions for one Condition cell.
Generalize(item) ==
    IF ~IsStr(item) THEN "Other"
    ELSE IF \/ Contains(<< "r", "a", "i", "n" >>, Lower(item))
            \/ Contains(<< "d", "r", "i", "z", "z", "l", "e" >>, Lower(item))
            \/ Contains(<< "m", "i", "s", "t", "y" >>, Lower(item))
            \/ Contains(<< "s", "t", "o", "r", "m" >>, Lower(item))
            \/ Contains(<< "t", "h", "u", "n", "d", "e", "r" >>, Lower(item))
    THEN "Rain"
    ELSE IF \/ Contains(<< "c", "l", "o", "u", "d", "y" >>, Lower(item))
            \/ Contains(<< "f", "o", "g" >>, Lower(item))
    THEN "Cloudy"
    ELSE IF Contains(<< "f", "a", "i", "r" >>, Lower(item)) THEN "Sun"
    ELSE "Other"

\* pd.get_dummies(values): one indicator column per distinct value that is
\* not missing; the row of a missing value is false in every column.
GetDummies(values) ==
    LET columns == { values[k] : k \in 1..Len(values) } \ {NaN}
    IN  [k \in 1..Len(values) |-> [c \in columns |-> values[k] = c]]

InitEncode ==
    /\ pc = "oneHotEncode"
    /\ error = "none"
    /\ raised_in = "none"
    /\ start_date = << >>
    /\ end_date = << >>
    /\ dtstart = Unbound
    /\ until = Unbound
    /\ dates = << >>
    /\ i = 0
    /\ done = FALSE
    /\ weather_data = Unbound
    /\ data = << >>
    /\ log = << >>
    /\ files = {}
    /\ data_raw \in Tables(ProcessedRows)
    /\ out = Unbound

\* oneHotEncode, lines 174-205: the Wind Direction column is replaced by
\* its indicator columns, the Condition column by the indicator columns of
\* the generalized conditions, and the table is written to
\* <station>_onehot_weather.csv and .xlsx.  A row of out holds the columns
\* kept ("kept"), and the indicator columns joined for Wind Direction
\* ("wind") and for Condition ("condition").
oneHotEncode ==
    /\ pc = "oneHotEncode"
    /\ LET rows == 1..Len(data_raw)
           one_hot_wind ==
               GetDummies(<< >> \o [k \in rows |-> data_raw[k]["Wind Direction"]])
           generalized_conditions ==
               << >> \o [k \in rows |-> Generalize(data_raw[k]["Condition"])]
           one_hot == GetDummies(generalized_conditions)
           encoded ==
               [k \in rows |->
                   [kept |-> [c \in DOMAIN data_raw[k] \ {"Wind Direction", "Condition"} |->
                                 data_raw[k][c]],
                    wind |-> one_hot_wind[k],
                    condition |-> one_hot[k]]]
       IN  /\ out' = encoded
           /\ files' = { [name |-> FileName(Station, "onehot_weather", "csv"),
                          format |-> "csv", content |-> out'],
                         [name |-> FileName(Station, "onehot_weather", "xlsx"),
                          format |-> "excel", content |-> out'] }
    /\ pc' = "encoded"
    /\ UNCHANGED << error, raised_in, start_date, end_date, dtstart, until,
                    dates, i, done, weather_data, data, log, data_raw >>

NextEncode == oneHotEncode

SpecEncode == InitEncode /\ [][NextEncode]_vars

\* Whether a text holds, in any letter case, one of the keywords.
HasKeywordIn(low, keywords) ==
    \E kw \in keywords : \E a \in 1..(Len(low) - Len(kw) + 1) :
        SubSeq(low, a, a + Len(kw) - 1) = kw

HasKeyword(cell, keywords) == HasKeywordIn(Lower(cell), keywords)

RainKeywords == { << "r", "a", "i", "n" >>, << "d", "r", "i", "z", "z", "l", "e" >>, << "m", "i", "s", "t", "y" >>, << "s", "t", "o", "r", "m" >>, << "t", "h", "u", "n", "d", "e", "r" >> }
CloudyKeywords == { << "c", "l", "o", "u", "d", "y" >>, << "f", "o", "g" >> }
SunKeywords == { << "f", "a", "i", "r" >> }

\* The indicator columns of a row that are true.
TrueColumns(indicators) == { c \in DOMAIN indicators : indicators[c] }

\* C6: every Condition cell gets exactly one label: Rain if it holds a Rain
\* keyword (whatever else it holds), else Cloudy if it holds a Cloudy
\* keyword, else Sun if it holds a Sun keyword, and Other if it holds no
\* keyword or is not a text.
C6_ConditionPrecedence ==
    pc = "encoded" =>
        \A k \in 1..Len(data_raw) :
            LET cell == data_raw[k]["Condition"]
                label == TrueColumns(out[k].condition)
            IN  /\ cell = NaN => label = {"Other"}
                /\ (cell # NaN /\ HasKeyword(cell, RainKeywords)) => label = {"Rain"}
                /\ (cell # NaN /\ ~HasKeyword(cell, RainKeywords)
                        /\ HasKeyword(cell, CloudyKeywords)) => label = {"Cloudy"}
                /\ (cell # NaN /\ ~HasKeyword(cell, RainKeywords)
                        /\ ~HasKeyword(cell, CloudyKeywords)
                        /\ HasKeyword(cell, SunKeywords)) => label = {"Sun"}
                /\ (cell # NaN /\ ~HasKeyword(cell, RainKeywords)
                        /\ ~HasKeyword(cell, CloudyKeywords)
                        /\ ~HasKeyword(cell, SunKeywords)) => label = {"Other"}

\* C6 witness: a table encoded with a row that holds a Rain and a Cloudy
\* keyword and a row whose Condition is missing.
C6_Witness ==
    /\ pc = "encoded"
    /\ \E k \in 1..Len(data_raw) :
           /\ data_raw[k]["Condition"] # NaN
           /\ HasKeyword(data_raw[k]["Condition"], RainKeywords)
           /\ HasKeyword(data_raw[k]["Condition"], CloudyKeywords)
    /\ \E k \in 1..Len(data_raw) : data_raw[k]["Condition"] = NaN

\* C7: in the output of oneHotEncode every row, a row with a missing Wind
\* Direction or Condition included, has exactly one true indicator column
\* for Wind Direction and exactly one for the generalized Condition.
C7_ExactlyOneIndicator ==
    pc = "encoded" =>
        \A k \in 1..Len(out) :
            /\ Cardinality(TrueColumns(out[k].wind)) = 1
            /\ Cardinality(TrueColumns(out[k].condition)) = 1

=============================================================================
